---- MODULE Spec2Model ----
(***************************************************************************)
(* State-machine model of the gps_odom node (src/src/gps_odom_old.cpp):    *)
(* the constructor gpsOdom::gpsOdom, the per-message handler               *)
(* gpsOdom::gpsCallback, gpsOdom::PublishTransform and main.               *)
(*                                                                         *)
(* Units and arithmetic.  Time stamps and durations are integers in        *)
(* nanoseconds (the resolution of ros::Time).  Quaternions are given in    *)
(* half units (the quaternion is (w,x,y,z)/2), restricted to the Hurwitz   *)
(* units, for which Eigen's quaternion-to-matrix formula is exact and      *)
(* yields integer matrices.  An angular rate is the exact rational         *)
(* <<numerator, duration in ns>>; floating-point rounding of the division  *)
(* is not modelled.  The KalmanFilter class is not part of the source      *)
(* file: it is modelled as an opaque component whose estimate after each   *)
(* operation is any element of a small set.                                *)
(***************************************************************************)
EXTENDS Integers, Sequences, FiniteSets, TLC

\* Bounds of the model.
MaxCalls == 3
MaxTick == 2

\* if(dt > 1e-6): the guard's epsilon, in nanoseconds.
EpsNs == 1000

VARIABLES params, pc, exitCode, nodes, node,
          t_last_proc, t_last_meas, R_prev,
          ncalls, last, pubLog, own

vars == <<params, pc, exitCode, nodes, node, t_last_proc, t_last_meas, R_prev,
          ncalls, last, pubLog, own>>

----------------------------------------------------------------------------
\* Values.

Vec3(a, b, c) == [x |-> a, y |-> b, z |-> c]

Quat(qw, qx, qy, qz) == [w |-> qw, x |-> qx, y |-> qy, z |-> qz]

\* Input stamps: multiples of 600 ns, so that consecutive differences fall
\* below (0, 600, negative) and above (1200, ...) the epsilon of 1000 ns.
Stamps == {600 * k : k \in 0..MaxTick}

\* Poses carried by the input messages: position, orientation, frame id.
PoseA == [position |-> Vec3(1, 2, 3), orientation |-> Quat(2, 0, 0, 0), frame_id |-> "world"]

PoseB == [position |-> Vec3(4, 6, 8), orientation |-> Quat(1, -1, -1, -1), frame_id |-> "world"]

PoseC == [position |-> Vec3(7, 5, 9), orientation |-> Quat(0, 0, 0, 2), frame_id |-> "map"]

Poses == {PoseA, PoseB, PoseC}

\* geometry_msgs::PoseStamped
PoseStamped(p, t) ==
  [header |-> [stamp |-> t, frame_id |-> p.frame_id],
   pose |-> [position |-> p.position, orientation |-> p.orientation]]

Msgs == {PoseStamped(p, t) : p \in Poses, t \in Stamps}

\* Messages the blocking wait of the constructor may return.
FirstMsgs == {PoseStamped(PoseA, 0), PoseStamped(PoseC, 600)}

NoMsg == PoseStamped([position |-> Vec3(0, 0, 0), orientation |-> Quat(0, 0, 0, 0),
                      frame_id |-> ""], 0)

Identity3 == [i \in 0..2 |-> [j \in 0..2 |-> IF i = j THEN 1 ELSE 0]]

\* 1.0 * KalmanFilter::ProcessCov_t::Identity()
IdentityCov == [i \in 0..5 |-> [j \in 0..5 |-> IF i = j THEN 1 ELSE 0]]

ZeroCov == [i \in 0..5 |-> [j \in 0..5 |-> 0]]

ZeroState == [i \in 0..5 |-> 0]

\* Estimates (state, covariance) the opaque filter may hold after a time
\* update or a measurement update.  All entries of a covariance are
\* distinct and non-zero, so that a misplaced entry is visible.
EstimateA ==
  [x |-> [i \in 0..5 |-> 11 + 2 * i],
   P |-> [i \in 0..5 |-> [j \in 0..5 |-> 100 + 10 * i + j]]]

EstimateB ==
  [x |-> [i \in 0..5 |-> 30 - 3 * i],
   P |-> [i \in 0..5 |-> [j \in 0..5 |-> 200 + 10 * i + j]]]

\* What the filter may answer in one cycle: its estimate after the time
\* update (prior) and after the measurement update (post).
FilterRuns ==
  { [prior |-> EstimateA, post |-> EstimateB],
    [prior |-> EstimateB, post |-> EstimateA] }

----------------------------------------------------------------------------
\* Exact rationals for the finite difference.

RECURSIVE Gcd(_, _)
Gcd(a, b) == IF b = 0 THEN a ELSE Gcd(b, a % b)

Abs(a) == IF a < 0 THEN -a ELSE a

\* num / den with den > 0, in lowest terms.
Rat(num, den) ==
  LET g == Gcd(Abs(num), den)
  IN  <<num \div g, den \div g>>

RatZero == <<0, 1>>

----------------------------------------------------------------------------
\* The filter (class KalmanFilter, not in the source file).

NoMeas == <<0, 0, 0>>

FreshFilter == [initialized |-> FALSE, x |-> ZeroState, P |-> ZeroCov, calls |-> <<>>]

kf_initialize(kf, x0, P0) ==
  [initialized |-> TRUE, x |-> x0, P |-> P0, calls |-> Append(kf.calls, "initialize")]

kf_processUpdate(kf, dt, est) ==
  [kf EXCEPT !.x = est.x, !.P = est.P, !.calls = Append(@, "processUpdate")]

kf_measurementUpdate(kf, meas, dt, est) ==
  [kf EXCEPT !.x = est.x, !.P = est.P, !.calls = Append(@, "measurementUpdate")]

kf_getState(kf) == kf.x

kf_getProcessNoise(kf) == kf.P

----------------------------------------------------------------------------
\* gpsOdom::gpsOdom

\* A parameter of the parameter server: present with a value, or absent.
Given(v) == [set |-> TRUE, value |-> v]

Absent(v) == [set |-> FALSE, value |-> v]

\* nh.param(name, var, default)
Param(p, default) == IF p.set THEN p.value ELSE default

ParamSpace ==
  [publish_tf : {Absent(FALSE), Given(TRUE), Given(FALSE)},
   child_frame_id : {Absent(""), Given(""), Given("quad")},
   gps_fps : {Absent(0), Given(0)}]

\* ConfigThrows with the flag negated.
ConfigThrowsInverted(publish_tf, child_frame_id) == ~publish_tf /\ child_frame_id = ""

\* if(publish_tf_ && child_frame_id_.empty()) throw
ConfigThrows(publish_tf, child_frame_id) == publish_tf /\ child_frame_id = ""

\* ROS_ASSERT(gps_fps > 0.0)
AssertFails(gps_fps) == ~(gps_fps > 0)

FreshNode ==
  [constructed |-> FALSE, initPose |-> NoMsg, publish_tf |-> FALSE,
   child_frame_id |-> "", kf |-> FreshFilter, advertised |-> {}, subscribed |-> FALSE]

\* InitStates starting the filter at the origin.
InitStatesOrigin(initPose) == [i \in 0..5 |-> 0]

\* initStates << initPose_->pose.position.x, .y, .z, 0.0, 0.0, 0.0
InitStates(initPose) ==
  [i \in 0..5 |-> CASE i = 0 -> initPose.pose.position.x
                    [] i = 1 -> initPose.pose.position.y
                    [] i = 2 -> initPose.pose.position.z
                    [] OTHER -> 0]

Topics == {"odom", "local_odom", "/mavros/mocap/pose"}

\* StaticInit for a static that is default-constructed (time zero) instead
\* of seeded from the first message.
StaticInitZero(s, v) == IF s.init THEN s ELSE [init |-> TRUE, val |-> 0]

----------------------------------------------------------------------------
\* gpsOdom::gpsCallback

\* ClockSeed taking the stamp of the measurement consumed by the constructor.
ClockSeedFromInit(msg, initPose) == initPose.header.stamp

\* The initialiser of the static clocks: msg->header.stamp
ClockSeed(msg, initPose) == msg.header.stamp

\* A function-local static initialised the first time control passes its
\* declaration: static ros::Time t = msg->header.stamp;
StaticInit(s, v) == IF s.init THEN s ELSE [init |-> TRUE, val |-> v]

\* Elapsed with a negative step clamped to zero.
ElapsedClamped(a, b) == IF a < b THEN 0 ELSE a - b

\* Elapsed with the operands exchanged.
ElapsedReversed(a, b) == b - a

\* (a - b).toSec(), in nanoseconds
Elapsed(a, b) == a - b

\* const KalmanFilter::Measurement_t meas(x, y, z)
Measurement(msg) == <<msg.pose.position.x, msg.pose.position.y, msg.pose.position.z>>

\* FusionStep with the two filter calls in the opposite order.
FusionStepSwapped(kf, msg, dt, meas_dt, prior, post) ==
  LET meas == Measurement(msg)
      kf1  == kf_measurementUpdate(kf, meas, meas_dt, post)
      kf2  == kf_processUpdate(kf1, dt, prior)
  IN  [kf |-> kf2,
       proc_noise_apriori |-> kf_getProcessNoise(kf1),
       xbar |-> kf_getState(kf1),
       state |-> kf_getState(kf2),
       proc_noise |-> kf_getProcessNoise(kf2),
       calls |-> << [op |-> "measurementUpdate", dt |-> meas_dt, meas |-> meas],
                    [op |-> "processUpdate", dt |-> dt, meas |-> NoMeas] >>]

\* FusionStep with the hypothesis test applied: a measurement farther than
\* the threshold (0.5) from the a-priori position is rejected.
FusionStepGated(kf, msg, dt, meas_dt, prior, post) ==
  LET kf1  == kf_processUpdate(kf, dt, prior)
      meas == Measurement(msg)
      xbar == kf_getState(kf1)
      far  == \E i \in 0..2 : 2 * Abs(meas[i + 1] - xbar[i]) > 1
      kf2  == IF far THEN kf1 ELSE kf_measurementUpdate(kf1, meas, meas_dt, post)
  IN  [kf |-> kf2,
       proc_noise_apriori |-> kf_getProcessNoise(kf1),
       xbar |-> xbar,
       state |-> kf_getState(kf2),
       proc_noise |-> kf_getProcessNoise(kf2),
       calls |-> << [op |-> "processUpdate", dt |-> dt, meas |-> NoMeas] >>
                 \o (IF far THEN << >>
                     ELSE << [op |-> "measurementUpdate", dt |-> meas_dt, meas |-> meas] >>)]

\* FusionStep reading the published state and covariance before the
\* measurement update.
FusionStepApriori(kf, msg, dt, meas_dt, prior, post) ==
  LET kf1  == kf_processUpdate(kf, dt, prior)
      meas == Measurement(msg)
      kf2  == kf_measurementUpdate(kf1, meas, meas_dt, post)
  IN  [kf |-> kf2,
       proc_noise_apriori |-> kf_getProcessNoise(kf1),
       xbar |-> kf_getState(kf1),
       state |-> kf_getState(kf1),
       proc_noise |-> kf_getProcessNoise(kf1),
       calls |-> << [op |-> "processUpdate", dt |-> dt, meas |-> NoMeas],
                    [op |-> "measurementUpdate", dt |-> meas_dt, meas |-> meas] >>]

\* Lines 82-98: time update, read of the a-priori estimate, measurement
\* update, read of the a-posteriori estimate.
FusionStep(kf, msg, dt, meas_dt, prior, post) ==
  LET kf1  == kf_processUpdate(kf, dt, prior)
      meas == Measurement(msg)
      kf2  == kf_measurementUpdate(kf1, meas, meas_dt, post)
  IN  [kf |-> kf2,
       proc_noise_apriori |-> kf_getProcessNoise(kf1),
       xbar |-> kf_getState(kf1),
       state |-> kf_getState(kf2),
       proc_noise |-> kf_getProcessNoise(kf2),
       calls |-> << [op |-> "processUpdate", dt |-> dt, meas |-> NoMeas],
                    [op |-> "measurementUpdate", dt |-> meas_dt, meas |-> meas] >>]

\* Eigen::Matrix3d R(Eigen::Quaterniond(w, x, y, z)): Eigen's
\* toRotationMatrix, on a quaternion given in half units.
QuatToRot(q) ==
  [i \in 0..2 |-> [j \in 0..2 |->
     CASE i = 0 /\ j = 0 -> 1 - ((q.y * q.y + q.z * q.z) \div 2)
       [] i = 0 /\ j = 1 -> (q.x * q.y - q.w * q.z) \div 2
       [] i = 0 /\ j = 2 -> (q.x * q.z + q.w * q.y) \div 2
       [] i = 1 /\ j = 0 -> (q.x * q.y + q.w * q.z) \div 2
       [] i = 1 /\ j = 1 -> 1 - ((q.x * q.x + q.z * q.z) \div 2)
       [] i = 1 /\ j = 2 -> (q.y * q.z - q.w * q.x) \div 2
       [] i = 2 /\ j = 0 -> (q.x * q.z - q.w * q.y) \div 2
       [] i = 2 /\ j = 1 -> (q.y * q.z + q.w * q.x) \div 2
       [] OTHER          -> 1 - ((q.x * q.x + q.y * q.y) \div 2)]]

\* w_hat = ((R - R_prev) / dt) * R.transpose(), entry (i, j)
WHat(R, Rp, dt, i, j) ==
  Rat((R[i][0] - Rp[i][0]) * R[j][0] + (R[i][1] - Rp[i][1]) * R[j][1]
        + (R[i][2] - Rp[i][2]) * R[j][2], dt)

\* ExceedsEps with the guard only excluding non-positive steps.
ExceedsZero(dt) == dt > 0

\* if(dt > 1e-6)
ExceedsEps(dt) == dt > EpsNs

\* AngularVelocity differencing against the identity R_prev starts with
\* instead of the stored rotation.
AngularVelocityIdentitySeed(R, Rp, dt) ==
  IF ExceedsEps(dt)
  THEN Vec3(WHat(R, Identity3, dt, 2, 1), WHat(R, Identity3, dt, 0, 2),
            WHat(R, Identity3, dt, 1, 0))
  ELSE Vec3(RatZero, RatZero, RatZero)

\* Lines 121-133: the angular velocity written into the freshly
\* constructed odom_msg, whose twist.twist.angular is (0, 0, 0) until set.
AngularVelocity(R, Rp, dt) ==
  IF ExceedsEps(dt)
  THEN Vec3(WHat(R, Rp, dt, 2, 1), WHat(R, Rp, dt, 0, 2), WHat(R, Rp, dt, 1, 0))
  ELSE Vec3(RatZero, RatZero, RatZero)

\* CovBlock with the 3x3 block packed at stride 3 instead of 6.
CovBlockPacked(P, r0, c0) ==
  [k \in 0..35 |-> IF k < 9 THEN P[r0 + (k \div 3)][c0 + (k % 3)] ELSE 0]

\* Lines 110-117: a 36-entry covariance array, zero when constructed, whose
\* entries 6*i+j (i, j < 3) take block (r0.., c0..) of the filter's matrix.
CovBlock(P, r0, c0) ==
  [k \in 0..35 |-> IF (k \div 6) < 3 /\ (k % 6) < 3
                   THEN P[r0 + (k \div 6)][c0 + (k % 6)]
                   ELSE 0]

\* Lines 100-133: nav_msgs::Odometry odom_msg
GlobalOdom(msg, state, proc_noise, dt, R, Rp) ==
  [header |-> msg.header,
   child_frame_id |-> msg.header.frame_id,
   pose |-> [position |-> Vec3(state[0], state[1], state[2]),
             orientation |-> msg.pose.orientation],
   linear |-> Vec3(state[3], state[4], state[5]),
   angular |-> AngularVelocity(R, Rp, dt),
   pose_covariance |-> CovBlock(proc_noise, 0, 0),
   twist_covariance |-> CovBlock(proc_noise, 3, 3)]

\* LocalOdom without the offset of the z component.
LocalOdomPlanar(odom_msg, initPose) ==
  [odom_msg EXCEPT !.pose.position =
     Vec3(odom_msg.pose.position.x - initPose.pose.position.x,
          odom_msg.pose.position.y - initPose.pose.position.y,
          odom_msg.pose.position.z)]

\* Lines 146-149: localOdom_msg
LocalOdom(odom_msg, initPose) ==
  [odom_msg EXCEPT !.pose.position =
     Vec3(odom_msg.pose.position.x - initPose.pose.position.x,
          odom_msg.pose.position.y - initPose.pose.position.y,
          odom_msg.pose.position.z - initPose.pose.position.z)]

\* MocapMsg that keeps the frame identifier of the input header.
MocapMsgSameFrame(msg) ==
  [header |-> msg.header,
   pose |-> [position |-> Vec3(msg.pose.position.x, msg.pose.position.y,
                               msg.pose.position.z),
             orientation |-> msg.pose.orientation]]

\* Lines 153-159: mocap_msg
MocapMsg(msg) ==
  [header |-> [msg.header EXCEPT !.frame_id = "fcu"],
   pose |-> [position |-> Vec3(msg.pose.position.x, msg.pose.position.y,
                               msg.pose.position.z),
             orientation |-> msg.pose.orientation]]

\* PublishTransform tagging the transform with the default child frame.
PublishTransformBaseLink(pose, header, child_frame_id) ==
  [header |-> header,
   child_frame_id |-> "base_link",
   translation |-> Vec3(pose.position.x, pose.position.y, pose.position.z),
   rotation |-> pose.orientation]

\* gpsOdom::PublishTransform: the transform handed to tf_broadcaster_
PublishTransform(pose, header, child_frame_id) ==
  [header |-> header,
   child_frame_id |-> child_frame_id,
   translation |-> Vec3(pose.position.x, pose.position.y, pose.position.z),
   rotation |-> pose.orientation]

\* RPrevAfter storing the rotation only when the finite difference was taken.
RPrevAfterGuarded(R, Rp, dt) == IF ExceedsEps(dt) THEN R ELSE Rp

\* Line 134: R_prev = R, after the guarded block
RPrevAfter(R, Rp, dt) == R

\* Publications with the local odometry sent before the transform.
PublicationsLocalFirst(msg, odom_msg, initPose, publish_tf, child_frame_id) ==
  << [sink |-> "odom", msg |-> odom_msg],
     [sink |-> "local_odom", msg |-> LocalOdom(odom_msg, initPose)] >>
  \o (IF publish_tf
      THEN << [sink |-> "tf",
               msg |-> PublishTransform(odom_msg.pose, odom_msg.header, child_frame_id)] >>
      ELSE << >>)
  \o << [sink |-> "mocap", msg |-> MocapMsg(msg)] >>

\* Lines 136-160: what is handed to the sinks, in the order of the calls.
Publications(msg, odom_msg, initPose, publish_tf, child_frame_id) ==
  << [sink |-> "odom", msg |-> odom_msg] >>
  \o (IF publish_tf
      THEN << [sink |-> "tf",
               msg |-> PublishTransform(odom_msg.pose, odom_msg.header, child_frame_id)] >>
      ELSE << >>)
  \o << [sink |-> "local_odom", msg |-> LocalOdom(odom_msg, initPose)],
        [sink |-> "mocap", msg |-> MocapMsg(msg)] >>

\* The record kept of the latest pass through gpsCallback; before the first
\* pass, k = 0.  prev, own_before, first_stamp, sum_dt and same_orientation
\* are history: the previous pass, what this instance saw before, the first
\* stamp, the sum of the steps handed to the time update, and whether all
\* messages so far carried one orientation.
NoCycle ==
  [k |-> 0, node |-> 0, msg |-> NoMsg, dt |-> 0, meas_dt |-> 0, Rp |-> Identity3,
   calls |-> << >>, xbar |-> ZeroState, proc_noise_apriori |-> ZeroCov,
   pubs |-> << >>,
   prev |-> [k |-> 0, stamp |-> 0, angular |-> Vec3(RatZero, RatZero, RatZero)],
   angular |-> Vec3(RatZero, RatZero, RatZero),
   own_before |-> [seen |-> FALSE, stamp |-> 0, R |-> Identity3],
   first_stamp |-> 0, sum_dt |-> 0, same_orientation |-> TRUE]

----------------------------------------------------------------------------
\* The state machine.

InitWith(instances) ==
  /\ params \in ParamSpace
  /\ pc = "construct"
  /\ exitCode = 0
  /\ nodes = instances
  /\ node = [n \in instances |-> FreshNode]
  /\ t_last_proc = [init |-> FALSE, val |-> 0]
  /\ t_last_meas = [init |-> FALSE, val |-> 0]
  /\ R_prev = Identity3
  /\ ncalls = 0
  /\ last = NoCycle
  /\ pubLog = << >>
  /\ own = [n \in instances |-> [seen |-> FALSE, stamp |-> 0, R |-> Identity3]]

\* main constructs one gpsOdom.
Init == InitWith({1})

\* gpsOdom::gpsOdom(nh) for instance n, first being the message returned by
\* ros::topic::waitForMessage.
Construct(n, first) ==
  /\ pc = "construct"
  /\ ~node[n].constructed
  /\ \A m \in nodes : m < n => node[m].constructed
  /\ LET publish_tf     == Param(params.publish_tf, TRUE)
         child_frame_id == Param(params.child_frame_id, "base_link")
         gps_fps        == Param(params.gps_fps, 20)
         read           == [node[n] EXCEPT !.initPose = first,
                                           !.publish_tf = publish_tf,
                                           !.child_frame_id = child_frame_id]
     IN  IF ConfigThrows(publish_tf, child_frame_id)
         THEN \* the exception reaches main's handler: return 1
              /\ node' = [node EXCEPT ![n] = read]
              /\ pc' = "exit"
              /\ exitCode' = 1
         ELSE IF AssertFails(gps_fps)
         THEN /\ node' = [node EXCEPT ![n] = read]
              /\ pc' = "abort"
              /\ exitCode' = exitCode
         ELSE /\ node' = [node EXCEPT ![n] =
                   [read EXCEPT !.kf = kf_initialize(@, InitStates(first), IdentityCov),
                                !.advertised = Topics,
                                !.subscribed = TRUE,
                                !.constructed = TRUE]]
              /\ pc' = IF \A m \in nodes : m > n => node[m].constructed
                       THEN "spin" ELSE "construct"
              /\ exitCode' = exitCode
  /\ UNCHANGED <<params, nodes, t_last_proc, t_last_meas, R_prev, ncalls, last,
                 pubLog, own>>

\* MembersAfter that also drops the startup pose and the transform settings.
MembersAfterReset(nd, kf) ==
  [nd EXCEPT !.kf = kf, !.initPose = NoMsg, !.publish_tf = FALSE, !.child_frame_id = ""]

\* The members of the instance after a pass through gpsCallback: only kf_
\* is written.
MembersAfter(nd, kf) == [nd EXCEPT !.kf = kf]

\* gpsOdom::gpsCallback(msg) on instance n, dispatched by ros::spin.  Each
\* \E v \in {e} binds a local of the function to its value; run holds the
\* estimates the filter has after its two updates.
gpsCallback(n, msg, run) ==
  /\ pc = "spin"
  /\ node[n].subscribed
  /\ ncalls < MaxCalls
  /\ \E tp \in {StaticInit(t_last_proc, ClockSeed(msg, node[n].initPose))} :
     \E dt \in {Elapsed(msg.header.stamp, tp.val)} :
     \E tm \in {StaticInit(t_last_meas, ClockSeed(msg, node[n].initPose))} :
     \E meas_dt \in {Elapsed(msg.header.stamp, tm.val)} :
     \E fused \in {FusionStep(node[n].kf, msg, dt, meas_dt, run.prior, run.post)} :
     \E R \in {QuatToRot(msg.pose.orientation)} :
     \E odom_msg \in {GlobalOdom(msg, fused.state, fused.proc_noise, dt, R, R_prev)} :
     \E pubs \in {Publications(msg, odom_msg, node[n].initPose,
                               node[n].publish_tf, node[n].child_frame_id)} :
       /\ t_last_proc' = [tp EXCEPT !.val = msg.header.stamp]
       /\ t_last_meas' = [tm EXCEPT !.val = msg.header.stamp]
       /\ R_prev' = RPrevAfter(R, R_prev, dt)
       /\ node' = [node EXCEPT ![n] = MembersAfter(@, fused.kf)]
       /\ last' = [k |-> ncalls + 1, node |-> n, msg |-> msg, dt |-> dt,
                   meas_dt |-> meas_dt, Rp |-> R_prev,
                   calls |-> fused.calls, xbar |-> fused.xbar,
                   proc_noise_apriori |-> fused.proc_noise_apriori,
                   pubs |-> pubs,
                   prev |-> [k |-> last.k, stamp |-> last.msg.header.stamp,
                             angular |-> last.angular],
                   angular |-> odom_msg.angular,
                   own_before |-> own[n],
                   first_stamp |-> IF last.k = 0 THEN msg.header.stamp
                                   ELSE last.first_stamp,
                   sum_dt |-> last.sum_dt + dt,
                   same_orientation |->
                     \/ last.k = 0
                     \/ /\ last.same_orientation
                        /\ msg.pose.orientation = last.msg.pose.orientation]
       /\ pubLog' = pubLog \o [i \in 1..Len(pubs) |->
                                 [k |-> ncalls + 1, node |-> n, sink |-> pubs[i].sink]]
       /\ own' = [own EXCEPT ![n] = [seen |-> TRUE, stamp |-> msg.header.stamp,
                                     R |-> R]]
  /\ ncalls' = ncalls + 1
  /\ UNCHANGED <<params, pc, exitCode, nodes>>

\* ros::spin returns (shutdown requested): main returns 0.
Shutdown ==
  /\ pc = "spin"
  /\ pc' = "exit"
  /\ exitCode' = 0
  /\ UNCHANGED <<params, nodes, node, t_last_proc, t_last_meas, R_prev, ncalls,
                 last, pubLog, own>>

Next ==
  \/ \E n \in nodes, first \in FirstMsgs : Construct(n, first)
  \/ \E n \in nodes, msg \in Msgs, run \in FilterRuns : gpsCallback(n, msg, run)
  \/ Shutdown

Spec == Init /\ [][Next]_vars

\* Two gpsOdom instances in one process, under the default configuration:
\* the function-local statics of gpsCallback are shared by both.
InitShared ==
  /\ InitWith({1, 2})
  /\ params = [publish_tf |-> Absent(FALSE), child_frame_id |-> Absent(""),
               gps_fps |-> Absent(0)]

SpecShared == InitShared /\ [][Next]_vars

----------------------------------------------------------------------------
\* Properties.

\* The latest cycle's message handed to a sink, and how many were.
Pub(sink) == last.pubs[CHOOSE i \in 1..Len(last.pubs) : last.pubs[i].sink = sink].msg

Count(sink) == Cardinality({i \in 1..Len(last.pubs) : last.pubs[i].sink = sink})

\* The callbacks dispatched to instance n so far.
Delivered(n) == {pubLog[i].k : i \in {j \in 1..Len(pubLog) : pubLog[j].node = n}}

ZeroAngular == Vec3(RatZero, RatZero, RatZero)

\* C1: every callback invokes the time update once and then the measurement
\* update once; after n callbacks on an instance its filter has seen, after
\* initialize, the alternating sequence processUpdate, measurementUpdate, ...
\* of length 2n.
C1_PredictThenUpdate ==
  /\ last.k > 0 =>
       /\ Len(last.calls) = 2
       /\ last.calls[1].op = "processUpdate"
       /\ last.calls[2].op = "measurementUpdate"
  /\ \A n \in nodes :
       LET c == node[n].kf.calls
       IN  /\ node[n].constructed =>
               /\ Len(c) = 1 + 2 * Cardinality(Delivered(n))
               /\ c[1] = "initialize"
           /\ \A i \in 2..Len(c) :
                c[i] = IF i % 2 = 0 THEN "processUpdate" ELSE "measurementUpdate"

C1_Witness ==
  /\ ncalls = 2
  /\ node[1].kf.calls = << "initialize", "processUpdate", "measurementUpdate",
                           "processUpdate", "measurementUpdate" >>

\* C2: no measurement is rejected: in every callback, whatever the message
\* and the a-priori estimate, measurementUpdate is called (once) with the
\* message's position, and one global odometry, one local odometry and one
\* pose relay are published.
C2_NeverRejected ==
  last.k > 0 =>
    /\ Cardinality({i \in 1..Len(last.calls) :
                      /\ last.calls[i].op = "measurementUpdate"
                      /\ last.calls[i].meas = << last.msg.pose.position.x,
                                                 last.msg.pose.position.y,
                                                 last.msg.pose.position.z >>}) = 1
    /\ Cardinality({i \in 1..Len(last.calls) :
                      last.calls[i].op = "measurementUpdate"}) = 1
    /\ Count("odom") = 1
    /\ Count("local_odom") = 1
    /\ Count("mocap") = 1
    /\ Cardinality(Delivered(last.node)) * 2 + 1 = Len(node[last.node].kf.calls)

\* A message older than its predecessor, far from the a-priori position, is
\* still fused and republished.
C2_Witness ==
  /\ last.k > 1
  /\ last.dt < 0
  /\ last.xbar[0] - last.msg.pose.position.x > 20
  /\ Count("odom") = 1
  /\ Count("mocap") = 1

\* C3: the step handed to the time update is the current stamp minus the
\* stored process stamp, which then becomes the current stamp: zero in the
\* first callback, stamp(k) - stamp(k-1) in callback k > 1.
C3_ProcessStep ==
  last.k > 0 =>
    /\ last.calls[1].op = "processUpdate"
    /\ last.calls[1].dt = IF last.k = 1 THEN 0
                          ELSE last.msg.header.stamp - last.prev.stamp
    /\ last.dt = last.calls[1].dt
    /\ t_last_proc = [init |-> TRUE, val |-> last.msg.header.stamp]

C3_Witness ==
  /\ last.k = 2
  /\ last.prev.stamp = 600
  /\ last.msg.header.stamp = 1200
  /\ last.calls[1].dt = 600

\* C4 as claimed: when the step is at or below 1e-6 s, the angular velocity
\* of the global odometry equals the one reported in the previous cycle.
C4_Original ==
  (last.k > 1 /\ last.dt <= EpsNs) => Pub("odom").angular = last.prev.angular

\* C4, amended: when the step is at or below 1e-6 s (the first callback
\* included), the angular velocity of the global odometry is (0, 0, 0), the
\* value of a freshly constructed message, whatever the previous cycle
\* reported.
C4_ZeroWhenGuarded ==
  (last.k > 0 /\ last.dt <= EpsNs) => Pub("odom").angular = ZeroAngular

C4_Witness ==
  /\ last.k > 1
  /\ last.dt <= EpsNs
  /\ last.prev.angular # ZeroAngular
  /\ Pub("odom").angular = ZeroAngular

\* C5: with two instances in one process, the steps and the previous
\* rotation used by an instance's callback depend only on the messages that
\* same instance processed before: the steps are zero in its first callback
\* and the difference to its own previous stamp afterwards, and the rotation
\* subtracted is its own previous one (the identity at first).
C5_PerInstanceState ==
  last.k > 0 =>
    LET o == last.own_before
    IN  /\ last.dt = IF o.seen THEN last.msg.header.stamp - o.stamp ELSE 0
        /\ last.meas_dt = IF o.seen THEN last.msg.header.stamp - o.stamp ELSE 0
        /\ last.Rp = IF o.seen THEN o.R ELSE Identity3

\* C6: the local odometry is the global odometry of the same cycle with the
\* initial pose's position subtracted component-wise; every other field is
\* equal.
C6_LocalIsGlobalMinusInit ==
  last.k > 0 =>
    LET g  == Pub("odom")
        l  == Pub("local_odom")
        ip == node[last.node].initPose.pose.position
    IN  /\ l.pose.position.x = g.pose.position.x - ip.x
        /\ l.pose.position.y = g.pose.position.y - ip.y
        /\ l.pose.position.z = g.pose.position.z - ip.z
        /\ l.header = g.header
        /\ l.child_frame_id = g.child_frame_id
        /\ l.linear = g.linear
        /\ l.pose.orientation = g.pose.orientation
        /\ l.angular = g.angular
        /\ l.pose_covariance = g.pose_covariance
        /\ l.twist_covariance = g.twist_covariance

C6_Witness ==
  /\ last.k > 0
  /\ Pub("odom").pose.position = Vec3(11, 13, 15)
  /\ Pub("local_odom").pose.position = Vec3(4, 8, 6)
  /\ Pub("odom").angular # ZeroAngular

\* C7: the pose relay carries the input message's position, orientation and
\* stamp, whatever the filter holds, under the frame identifier "fcu".
C7_RelayIsRawPose ==
  last.k > 0 =>
    LET m == Pub("mocap")
    IN  /\ m.pose.position = last.msg.pose.position
        /\ m.pose.orientation = last.msg.pose.orientation
        /\ m.header.stamp = last.msg.header.stamp
        /\ m.header.frame_id = "fcu"

C7_Witness ==
  /\ last.k > 0
  /\ last.msg.header.frame_id = "map"
  /\ Pub("mocap").header.frame_id = "fcu"
  /\ Pub("mocap").pose.position = Vec3(7, 5, 9)
  /\ Pub("odom").pose.position = Vec3(30, 27, 24)

\* C8: in the global odometry, entry 6*i+j (i, j in 0..2) of the pose
\* covariance is element (i, j) of the filter's covariance and that of the
\* twist covariance is element (3+i, 3+j); no cross term (i, 3+j) or (3+i, j)
\* appears in either array, and every other entry is zero.
C8_CovarianceBlocks ==
  last.k > 0 =>
    LET g == Pub("odom")
        P == kf_getProcessNoise(node[last.node].kf)
    IN  /\ \A i, j \in 0..2 :
             /\ g.pose_covariance[6 * i + j] = P[i][j]
             /\ g.twist_covariance[6 * i + j] = P[3 + i][3 + j]
        /\ \A k \in 0..35 :
             (k \div 6 > 2 \/ k % 6 > 2) =>
               g.pose_covariance[k] = 0 /\ g.twist_covariance[k] = 0
        /\ \A k \in 0..35 : \A i, j \in 0..2 :
             /\ g.pose_covariance[k] # P[i][3 + j]
             /\ g.pose_covariance[k] # P[3 + i][j]
             /\ g.twist_covariance[k] # P[i][3 + j]
             /\ g.twist_covariance[k] # P[3 + i][j]

C8_Witness ==
  /\ last.k > 0
  /\ Pub("odom").pose_covariance[14] = 222
  /\ Pub("odom").twist_covariance[14] = 255
  /\ node[last.node].kf.P[2][5] = 225

\* C9: within a callback the publications are global odometry, the
\* transform (only when enabled), local odometry, pose relay, in that
\* order; and every publication for message k precedes every publication
\* for message k+1.
C9_PublicationOrder ==
  /\ last.k > 0 =>
       [i \in 1..Len(last.pubs) |-> last.pubs[i].sink] =
         IF node[last.node].publish_tf
         THEN << "odom", "tf", "local_odom", "mocap" >>
         ELSE << "odom", "local_odom", "mocap" >>
  /\ \A i, j \in 1..Len(pubLog) : i < j => pubLog[i].k <= pubLog[j].k
  /\ \A k \in 1..ncalls : \E i \in 1..Len(pubLog) : pubLog[i].k = k

C9_Witness ==
  /\ last.k = 2
  /\ node[last.node].publish_tf
  /\ Len(pubLog) = 8
  /\ pubLog[4].sink = "mocap" /\ pubLog[4].k = 1
  /\ pubLog[5].sink = "odom" /\ pubLog[5].k = 2
  /\ pubLog[6].sink = "tf"

\* C10 as claimed: with the transform flag true and no child frame
\* identifier in the configuration, no node is ever constructed and the
\* process, once past construction, has exited with code 1.
C10_Original ==
  (Param(params.publish_tf, TRUE) /\ ~params.child_frame_id.set) =>
    /\ \A n \in nodes : ~node[n].constructed
    /\ pc # "construct" => (pc = "exit" /\ exitCode = 1)

\* C10, amended: with the transform flag true and a child frame identifier
\* that the configuration gives as the empty string (an absent one defaults
\* to "base_link" and startup proceeds), construction, once the blocking wait
\* has returned, aborts: the filter is never initialized, no publisher or
\* subscription exists, no callback runs, and the process exits with code 1.
C10_EmptyChildFrameIsFatal ==
  (Param(params.publish_tf, TRUE) /\ params.child_frame_id = Given("")) =>
    /\ \A n \in nodes :
         /\ ~node[n].constructed
         /\ ~node[n].kf.initialized
         /\ node[n].kf.calls = << >>
         /\ node[n].advertised = {}
         /\ ~node[n].subscribed
    /\ ncalls = 0
    /\ pubLog = << >>
    /\ pc # "construct" => (pc = "exit" /\ exitCode = 1)

C10_Witness ==
  /\ Param(params.publish_tf, TRUE)
  /\ params.child_frame_id = Given("")
  /\ pc = "exit"
  /\ exitCode = 1
  /\ node[1].initPose \in FirstMsgs

\* C11: with the transform flag false no transform is ever broadcast; with
\* it true exactly one is broadcast per callback, whose translation is the
\* global fused position of the cycle, whose rotation and header are the
\* input message's and whose child frame is the configured identifier.  The
\* flag holds the value resolved at startup throughout.
C11_TransformWhenEnabled ==
  /\ \A n \in nodes : node[n].constructed =>
       /\ node[n].publish_tf = Param(params.publish_tf, TRUE)
       /\ Cardinality({i \in 1..Len(pubLog) : pubLog[i].node = n /\ pubLog[i].sink = "tf"})
            = IF node[n].publish_tf THEN Cardinality(Delivered(n)) ELSE 0
  /\ last.k > 0 =>
       IF node[last.node].publish_tf
       THEN /\ Count("tf") = 1
            /\ Pub("tf").translation = Pub("odom").pose.position
            /\ Pub("tf").translation =
                 Vec3(node[last.node].kf.x[0], node[last.node].kf.x[1],
                      node[last.node].kf.x[2])
            /\ Pub("tf").rotation = last.msg.pose.orientation
            /\ Pub("tf").header = last.msg.header
            /\ Pub("tf").child_frame_id = Param(params.child_frame_id, "base_link")
       ELSE Count("tf") = 0

C11_Witness ==
  /\ last.k = 2
  /\ node[1].publish_tf
  /\ Pub("tf").child_frame_id = "quad"
  /\ Pub("tf").translation = Vec3(11, 13, 15)
  /\ Pub("local_odom").pose.position = Vec3(10, 11, 12)
  /\ Pub("tf").rotation = Quat(1, -1, -1, -1)

\* C12: a constructed node's filter was initialized exactly once, before
\* the subscription existed and before any update, with the position of the
\* measurement returned by the blocking wait, zero velocity and the identity
\* covariance; no callback initializes it again.
C12_InitializedOnce ==
  \A n \in nodes :
    LET c == node[n].kf.calls
    IN  /\ node[n].subscribed => node[n].kf.initialized
        /\ node[n].constructed =>
             /\ c # << >>
             /\ c[1] = "initialize"
             /\ Cardinality({i \in 1..Len(c) : c[i] = "initialize"}) = 1
        /\ (node[n].constructed /\ Len(c) = 1) =>
             /\ node[n].kf.x[0] = node[n].initPose.pose.position.x
             /\ node[n].kf.x[1] = node[n].initPose.pose.position.y
             /\ node[n].kf.x[2] = node[n].initPose.pose.position.z
             /\ node[n].kf.x[3] = 0 /\ node[n].kf.x[4] = 0 /\ node[n].kf.x[5] = 0
             /\ node[n].kf.P = IdentityCov
             /\ node[n].initPose \in FirstMsgs
        /\ ~node[n].constructed => c = << >>

C12_Witness ==
  /\ pc = "spin"
  /\ ncalls = 0
  /\ node[1].subscribed
  /\ node[1].kf.calls = << "initialize" >>
  /\ node[1].kf.x = [i \in 0..5 |-> CASE i = 0 -> 7 [] i = 1 -> 5 [] i = 2 -> 9
                                      [] OTHER -> 0]

\* C13: at the end of every callback the stored previous rotation is the
\* current message's rotation, also when the epsilon guard skipped the
\* finite difference; so the rotation subtracted in a callback is that of
\* the immediately preceding message.
C13_PreviousRotationStored ==
  /\ last.k > 0 => R_prev = QuatToRot(last.msg.pose.orientation)
  /\ last.k > 1 => last.Rp = last.own_before.R
  /\ last.k = 1 => last.Rp = Identity3

C13_Witness ==
  /\ last.k = 2
  /\ last.dt > EpsNs
  /\ last.prev.stamp = 0
  /\ last.Rp = QuatToRot(Quat(1, -1, -1, -1))
  /\ R_prev = QuatToRot(Quat(0, 0, 0, 2))
  /\ last.Rp # Identity3

\* C14: the position, linear velocity and covariance of the global odometry
\* are those the filter holds after the cycle's measurement update, not the
\* a-priori ones read in between.
C14_PosteriorPublished ==
  last.k > 0 =>
    LET g  == Pub("odom")
        kf == node[last.node].kf
    IN  /\ g.pose.position = Vec3(kf.x[0], kf.x[1], kf.x[2])
        /\ g.linear = Vec3(kf.x[3], kf.x[4], kf.x[5])
        /\ g.pose_covariance = CovBlock(kf.P, 0, 0)
        /\ g.twist_covariance = CovBlock(kf.P, 3, 3)
        /\ kf.calls[Len(kf.calls)] = "measurementUpdate"
        /\ last.xbar # kf.x =>
             g.pose.position # Vec3(last.xbar[0], last.xbar[1], last.xbar[2])
        /\ last.proc_noise_apriori # kf.P =>
             g.pose_covariance # CovBlock(last.proc_noise_apriori, 0, 0)

C14_Witness ==
  /\ last.k > 0
  /\ last.xbar[0] = 30
  /\ last.proc_noise_apriori[0][0] = 200
  /\ Pub("odom").pose.position = Vec3(11, 13, 15)
  /\ Pub("odom").linear = Vec3(17, 19, 21)
  /\ Pub("odom").pose_covariance[0] = 100

\* C15: a message stamped at or before its predecessor is not validated:
\* both filter updates run with the zero or negative step as computed, both
\* stored stamps become the message's (possibly earlier) stamp, the angular
\* velocity is not computed, and the three output messages are published.
C15_StaleStampProcessed ==
  (last.k > 1 /\ last.msg.header.stamp <= last.prev.stamp) =>
    /\ last.calls =
         << [op |-> "processUpdate",
             dt |-> last.msg.header.stamp - last.prev.stamp, meas |-> NoMeas],
            [op |-> "measurementUpdate",
             dt |-> last.msg.header.stamp - last.prev.stamp,
             meas |-> << last.msg.pose.position.x, last.msg.pose.position.y,
                         last.msg.pose.position.z >>] >>
    /\ t_last_proc.val = last.msg.header.stamp
    /\ t_last_meas.val = last.msg.header.stamp
    /\ Pub("odom").angular = ZeroAngular
    /\ Count("odom") = 1 /\ Count("local_odom") = 1 /\ Count("mocap") = 1

C15_Witness ==
  /\ last.k > 1
  /\ last.prev.stamp = 1200
  /\ last.msg.header.stamp = 0
  /\ last.calls[1].dt = -1200
  /\ last.calls[2].dt = -1200
  /\ t_last_proc.val = 0
  /\ last.Rp # QuatToRot(last.msg.pose.orientation)
  /\ Count("mocap") = 1

\* C16: a callback leaves the initial pose, the transform flag and the
\* child frame identifier of every constructed instance as they were.
C16_StartupMembersKept ==
  [][\A n \in nodes : node[n].constructed =>
        /\ node'[n].initPose = node[n].initPose
        /\ node'[n].publish_tf = node[n].publish_tf
        /\ node'[n].child_frame_id = node[n].child_frame_id]_vars

C16_Witness ==
  /\ ncalls = 2
  /\ node[1].initPose = PoseStamped(PoseC, 600)
  /\ node[1].publish_tf
  /\ node[1].child_frame_id = "quad"
  /\ Pub("local_odom").pose.position = Vec3(23, 22, 15)

\* C17: in a single node both stored stamps equal the stamp of the message
\* just processed after every callback, the step handed to the measurement
\* update equals the one handed to the time update, and a message not older
\* than its predecessor gives steps >= 0 and stored stamps that do not
\* decrease.
C17_ClocksAgree ==
  /\ (ncalls = 0) = ~t_last_proc.init
  /\ t_last_meas = t_last_proc
  /\ last.k > 0 =>
       /\ t_last_proc = [init |-> TRUE, val |-> last.msg.header.stamp]
       /\ last.calls[1].op = "processUpdate"
       /\ last.calls[2].op = "measurementUpdate"
       /\ last.calls[2].dt = last.calls[1].dt
       /\ last.meas_dt = last.dt
  /\ (last.k > 1 /\ last.msg.header.stamp >= last.prev.stamp) =>
       /\ last.calls[1].dt >= 0
       /\ last.calls[2].dt >= 0
       /\ t_last_proc.val >= last.prev.stamp
       /\ t_last_meas.val >= last.prev.stamp

C17_Witness ==
  /\ last.k = 3
  /\ last.prev.stamp = 600
  /\ last.first_stamp = 0
  /\ last.calls[1].dt = 600
  /\ last.calls[2].dt = 600
  /\ t_last_meas.val = 1200

\* C18: the clocks are seeded from the first message delivered to the
\* callback, not from the measurement consumed by the constructor: the first
\* steps are zero whatever the stamp of that measurement, and after n
\* callbacks the steps handed to the time update sum to stamp(n) - stamp(1).
C18_SeededFromFirstCallback ==
  last.k > 0 =>
    /\ last.k = 1 => (last.calls[1].dt = 0 /\ last.calls[2].dt = 0)
    /\ last.sum_dt = last.msg.header.stamp - last.first_stamp
    /\ last.k = 1 => last.first_stamp = last.msg.header.stamp

C18_Witness ==
  /\ last.k = 2
  /\ node[1].initPose.header.stamp = 0
  /\ last.first_stamp = 600
  /\ last.msg.header.stamp = 1200
  /\ last.sum_dt = 600

\* C19: in a single node the identity that the previous rotation starts
\* with never enters a finite difference, the first callback being guarded;
\* so while every message so far carried one orientation, the angular
\* velocity published is (0, 0, 0), the first callback included.
C19_FixedOrientationZeroRate ==
  /\ (last.k > 0 /\ last.dt > EpsNs) => (last.k > 1 /\ last.Rp = last.own_before.R)
  /\ last.k = 1 => (last.dt = 0 /\ Pub("odom").angular = ZeroAngular)
  /\ (last.k > 0 /\ last.same_orientation) =>
       /\ Pub("odom").angular = ZeroAngular
       /\ Pub("local_odom").angular = ZeroAngular

\* Two messages 1200 ns apart with one orientation other than the identity:
\* the finite difference is computed and is zero.
C19_Witness ==
  /\ last.k = 2
  /\ last.first_stamp = 0
  /\ last.msg.header.stamp = 1200
  /\ last.dt > EpsNs
  /\ last.same_orientation
  /\ last.msg.pose.orientation = Quat(1, -1, -1, -1)
  /\ last.Rp = QuatToRot(Quat(1, -1, -1, -1))
  /\ Pub("odom").angular = ZeroAngular

====
